---- MODULE Spec2Model ----
(***************************************************************************)
(* A model of src/ed.c: a terminal program that puts the terminal into raw *)
(* mode, probes the window size, and then alternates between redrawing the *)
(* screen through an append buffer and reading one key.                    *)
(*                                                                         *)
(* Bytes are one-character strings; the escape byte 0x1b is "ESC", the NUL *)
(* byte is "NUL", CR and LF are "CR" and "LF".  A byte string is a         *)
(* sequence of bytes.                                                      *)
(*                                                                         *)
(* A struct termios is modelled by its memory image, a sequence of         *)
(* TermiosWords 32-bit words laid out as <termios.h> lays them out on      *)
(* Linux: c_iflag, c_oflag, c_cflag, c_lflag, then the control characters  *)
(* (abstracted to one word holding VMIN * 256 + VTIME).  struct            *)
(* editorConfig is two ints followed by a struct termios, so its image is  *)
(* two words longer than the image of a struct termios.                    *)
(***************************************************************************)
EXTENDS Integers, Sequences, FiniteSets, TLC

(* ------------------------------ bounds --------------------------------- *)

\* iterations of the while (1) loop of main that the model follows
MaxFrames == 2
\* largest ws_row / ws_col the window-size ioctl reports
MaxRows == 2
MaxCols == 1
\* failures the system injects in one run: realloc calls that fail, read()
\* calls of editorReadKey that return without a byte, and frame writes that
\* are not complete
MaxFaults == 1

(* ------------------------ <termios.h> constants ------------------------ *)

BRKINT == 2
ICRNL == 256
INPCK == 16
ISTRIP == 32
IXON == 1024
OPOST == 1
CS8 == 48
ECHO == 8
ICANON == 2
IEXTEN == 32768
ISIG == 1

\* number of words of the image of a struct termios
TermiosWords == 5
\* index of each member in the image
C_IFLAG == 1
C_OFLAG == 2
C_CFLAG == 3
C_LFLAG == 4
C_CC == 5

(* ----------------------------- bit operations -------------------------- *)

RECURSIVE BitAnd(_, _)
BitAnd(a, b) ==
    IF a = 0 \/ b = 0 THEN 0
    ELSE (a % 2) * (b % 2) + 2 * BitAnd(a \div 2, b \div 2)

\* x |= m
BitOr(x, m) == x + m - BitAnd(x, m)

\* x &= ~m
BitClear(x, m) == x - BitAnd(x, m)

\* #define CTRL_KEY(k) ((k) & 0x1f)
CTRL_KEY(k) == BitAnd(k, 31)

(* ------------------------------ byte strings --------------------------- *)

ESC == "ESC"
NUL == "NUL"

RECURSIVE Concat(_)
Concat(ss) == IF ss = <<>> THEN <<>> ELSE Head(ss) \o Concat(Tail(ss))

RECURSIVE SumLen(_)
SumLen(ss) == IF ss = <<>> THEN 0 ELSE Len(Head(ss)) + SumLen(Tail(ss))

\* the string literals of the program
SeqClearScreen == <<ESC, "[", "2", "J">>
SeqHome == <<ESC, "[", "H">>
SeqHideCursor == <<ESC, "[", "?", "2", "5", "l">>
SeqShowCursor == <<ESC, "[", "?", "2", "5", "h">>
SeqRowMarker == <<"~">>
SeqRowClear == <<ESC, "[", "k">>
SeqCRLF == <<"CR", "LF">>
\* "\x1b[99C\x1b[999B" is 11 bytes; the write of 12 bytes sends its NUL too
SeqBottomRight == <<ESC, "[", "9", "9", "C", ESC, "[", "9", "9", "9", "B", NUL>>
SeqReportCursor == <<ESC, "[", "6", "n">>

(* ------------------------------- state --------------------------------- *)

VARIABLES
    pc,          \* the statement the process is at
    term,        \* the terminal's current attributes (image of a struct termios)
    E,           \* struct editorConfig E
    registered,  \* atexit(disableRawMode) has been called
    exitCalls,   \* number of calls of exit() so far
    status,      \* the argument of the last exit(), -1 before any
    tio,         \* every system call made on the terminal, in order
    ab,          \* struct abuf ab of the running editorRefreshScreen
    y,           \* the loop variable of editorDrawRows
    c,           \* the byte editorReadKey returned
    s,           \* the argument of die
    probe,       \* what getWindowSize was given by the system, and its result
    calls,       \* the abAppend calls of the running frame: [s, ok]
    attr0,       \* the terminal attributes when the program started
    frames,      \* frames begun
    allocFails,  \* realloc failures so far
    timeouts,    \* reads of editorReadKey that returned without a byte
    nread        \* int nread of editorReadKey: what its last read() returned

vars == <<pc, term, E, registered, exitCalls, status, tio, ab, y, c, s, probe,
          calls, attr0, frames, allocFails, timeouts, nread>>

\* failures the system has injected so far: realloc calls that failed, reads
\* of editorReadKey without a byte, frame writes that were not complete
Faults ==
    allocFails + timeouts
        + Cardinality({i \in 1..Len(tio) :
                         /\ tio[i].fn = "editorRefreshScreen"
                         /\ tio[i].ret # Len(tio[i].data)})

\* one system call on the terminal: its name, the function making it, the
\* bytes or words it transfers, and its return value
Ev(op, fn, data, ret) == [op |-> op, fn |-> fn, data |-> data, ret |-> ret]

(* --------------------------- struct editorConfig ----------------------- *)

\* struct editorConfig E; a global, so zero-initialised
EInit ==
    [screenrows |-> 0, screencols |-> 0,
     orig_termios |-> [i \in 1..TermiosWords |-> 0]]

\* the struct termios a callee reads through (struct termios *)&E: the
\* first TermiosWords words of E
LoadTermiosAtE(e) ==
    <<e.screenrows, e.screencols>>
        \o SubSeq(e.orig_termios, 1, TermiosWords - 2)

\* E after a callee has written the struct termios t through
\* (struct termios *)&E
StoreTermiosAtE(e, t) ==
    [screenrows |-> t[1],
     screencols |-> t[2],
     orig_termios |->
        SubSeq(t, 3, TermiosWords)
            \o SubSeq(e.orig_termios, TermiosWords - 1, TermiosWords)]

(* ------------------------------ raw mode ------------------------------- *)

\* a | b | ... of a sequence of flags
RECURSIVE Flags(_)
Flags(fs) == IF fs = <<>> THEN 0 ELSE BitOr(Head(fs), Flags(Tail(fs)))

\* lines 60-79 of enableRawMode: every flag is changed in c_lflag
RawOf(raw) ==
    LET l1 == BitClear(raw[C_LFLAG], Flags(<<BRKINT, ICRNL, INPCK, ISTRIP, IXON>>))
        l2 == BitClear(l1, OPOST)
        l3 == BitOr(l2, CS8)
        l4 == BitClear(l3, Flags(<<ECHO, ICANON, IEXTEN, ISIG>>))
        \* c_cc[VMIN] = 0; c_cc[VTIME] = 1
        cc1 == raw[C_CC] % 256
        cc2 == (cc1 \div 256) * 256 + 1
    IN  [raw EXCEPT ![C_LFLAG] = l4, ![C_CC] = cc2]

\* enableRawMode without its final tcsetattr
enableRawMode_NoApply ==
    /\ pc = "enableRawMode"
    /\ E' = StoreTermiosAtE(E, term)
    /\ registered' = TRUE
    /\ tio' = tio \o <<Ev("tcgetattr", "enableRawMode", term, 0),
                       Ev("tcgetattr", "enableRawMode", term, 0)>>
    /\ pc' = "initEditor"
    /\ UNCHANGED <<term, exitCalls, status, ab, y, c, s, probe, calls, attr0,
                   frames, allocFails, timeouts,
                   nread>>

\* void enableRawMode(): tcgetattr into &E, atexit, the copy raw, the second
\* tcgetattr (unchecked) into raw, the flag changes, tcsetattr. r1, r2, r3
\* are what the three system calls return.
enableRawMode ==
    /\ pc = "enableRawMode"
    /\ \E r1 \in {0, -1} :
        IF r1 = -1
        THEN /\ tio' = tio \o <<Ev("tcgetattr", "enableRawMode", <<>>, -1)>>
             /\ pc' = "die"
             /\ s' = "tcgetattr"
             /\ UNCHANGED <<term, E, registered>>
        ELSE \E r2 \in {0, -1}, r3 \in {0, -1} :
             LET e1 == StoreTermiosAtE(E, term)
                 raw0 == IF r2 = 0 THEN term ELSE e1.orig_termios
                 raw == RawOf(raw0)
             IN  /\ E' = e1
                 /\ registered' = TRUE
                 /\ tio' = tio \o
                        <<Ev("tcgetattr", "enableRawMode", term, 0),
                          Ev("tcgetattr", "enableRawMode",
                             IF r2 = 0 THEN term ELSE <<>>, r2),
                          Ev("tcsetattr", "enableRawMode", raw, r3)>>
                 /\ IF r3 = 0
                    THEN /\ term' = raw
                         /\ pc' = "initEditor"
                         /\ s' = s
                    ELSE /\ term' = term
                         /\ pc' = "die"
                         /\ s' = "tcsetattr"
    /\ UNCHANGED <<exitCalls, status, ab, y, c, probe, calls, attr0, frames,
                   allocFails, timeouts,
                   nread>>

(* ------------------------------ termination ---------------------------- *)

\* void die(const char *s): two writes, perror, exit(1)
die ==
    /\ pc = "die"
    /\ tio' = tio \o
            <<Ev("write", "die", SeqClearScreen, 4),
              Ev("write", "die", SeqHome, 3),
              Ev("perror", "die", <<s>>, 0)>>
    /\ pc' = "exit"
    /\ status' = 1
    /\ UNCHANGED <<term, E, registered, exitCalls, ab, y, c, s, probe, calls,
                   attr0, frames, allocFails, timeouts,
                   nread>>

\* exit that ends the process without running the registered function
exit_NoHandlers ==
    /\ pc = "exit"
    /\ exitCalls' = exitCalls + 1
    /\ pc' = "exited"
    /\ UNCHANGED <<term, E, registered, status, tio, ab, y, c, s, probe, calls,
                   attr0, frames, allocFails, timeouts,
                   nread>>

\* exit(status): the first call runs the function registered with atexit, if
\* any, and then ends the process. A second call, made while the first is
\* running that function, is undefined: the process either ends or never
\* returns.
exit ==
    /\ pc = "exit"
    /\ exitCalls' = exitCalls + 1
    /\ IF exitCalls = 0
       THEN pc' = IF registered THEN "disableRawMode" ELSE "exited"
       ELSE pc' \in {"exited", "hung"}
    /\ UNCHANGED <<term, E, registered, status, tio, ab, y, c, s, probe, calls,
                   attr0, frames, allocFails, timeouts,
                   nread>>

\* disableRawMode applying the member E.orig_termios
disableRawMode_Member ==
    /\ pc = "disableRawMode"
    /\ tio' = tio \o <<Ev("tcsetattr", "disableRawMode", E.orig_termios, 0)>>
    /\ term' = E.orig_termios
    /\ pc' = "exited"
    /\ UNCHANGED <<E, registered, exitCalls, status, ab, y, c, s, probe, calls,
                   attr0, frames, allocFails, timeouts,
                   nread>>

\* void disableRawMode(): tcsetattr from &E
disableRawMode ==
    /\ pc = "disableRawMode"
    /\ \E r \in {0, -1} :
        /\ tio' = tio \o
                <<Ev("tcsetattr", "disableRawMode", LoadTermiosAtE(E), r)>>
        /\ IF r = 0
           THEN /\ term' = LoadTermiosAtE(E)
                /\ pc' = "exited"
                /\ s' = s
           ELSE /\ term' = term
                /\ pc' = "die"
                /\ s' = "tcsetattr"
    /\ UNCHANGED <<E, registered, exitCalls, status, ab, y, c, probe, calls,
                   attr0, frames, allocFails, timeouts,
                   nread>>

(* ---------------------------- geometry probe --------------------------- *)

\* char buf[32]
BufSize == 32

Digits == <<"0", "1", "2", "3", "4", "5", "6", "7", "8", "9">>
IsDigit(ch) == \E d \in 1..10 : Digits[d] = ch
DigitVal(ch) == (CHOOSE d \in 1..10 : Digits[d] = ch) - 1
IsSpace(ch) == ch \in {" ", "CR", "LF", "TAB"}

\* the read loop of getCursorPosition (lines 104-108) from index i on, with
\* input the bytes the terminal sends; a read past them returns 0.
\* got is the result of every read() so far: <<byte>> or <<>>.
RECURSIVE ReadLoop(_, _, _, _)
ReadLoop(buf, i, input, got) ==
    IF ~(i < BufSize - 1) THEN [buf |-> buf, i |-> i, got |-> got]
    ELSE IF input = <<>> THEN [buf |-> buf, i |-> i, got |-> Append(got, <<>>)]
    ELSE LET b == Head(input)
             buf1 == [buf EXCEPT ![i + 1] = b]
             got1 == Append(got, <<b>>)
         IN  IF b = "R" THEN [buf |-> buf1, i |-> i, got |-> got1]
             ELSE ReadLoop(buf1, i + 1, Tail(input), got1)

\* the C string that starts at buf[from] (0-based): the bytes before the
\* first NUL
RECURSIVE CStr(_, _)
CStr(buf, from) ==
    IF from >= Len(buf) \/ buf[from + 1] = NUL THEN <<>>
    ELSE <<buf[from + 1]>> \o CStr(buf, from + 1)

RECURSIVE SkipSpace(_, _)
SkipSpace(str, p) ==
    IF p <= Len(str) /\ IsSpace(str[p]) THEN SkipSpace(str, p + 1) ELSE p

RECURSIVE ScanDigits(_, _, _)
ScanDigits(str, p, acc) ==
    IF p <= Len(str) /\ IsDigit(str[p])
    THEN ScanDigits(str, p + 1, acc * 10 + DigitVal(str[p]))
    ELSE [val |-> acc, next |-> p]

\* the conversion %d at position p of str: white space, an optional sign,
\* one or more digits
ScanInt(str, p) ==
    LET q == SkipSpace(str, p)
        signed == q <= Len(str) /\ str[q] \in {"+", "-"}
        d == IF signed THEN q + 1 ELSE q
        r == ScanDigits(str, d, 0)
    IN  [ok |-> r.next > d,
         eof |-> q > Len(str),
         val |-> IF signed /\ str[q] = "-" THEN 0 - r.val ELSE r.val,
         next |-> r.next]

\* sscanf(str, "%d;%d", rows, cols): n is the return value, rows and cols
\* what the two ints hold afterwards
Sscanf2(str, rows, cols) ==
    LET a == ScanInt(str, 1)
    IN  IF ~a.ok
        THEN [n |-> IF a.eof THEN -1 ELSE 0, rows |-> rows, cols |-> cols]
        ELSE IF a.next > Len(str) \/ str[a.next] # ";"
        THEN [n |-> 1, rows |-> a.val, cols |-> cols]
        ELSE LET b == ScanInt(str, a.next + 1)
             IN  IF b.ok THEN [n |-> 2, rows |-> a.val, cols |-> b.val]
                 ELSE [n |-> 1, rows |-> a.val, cols |-> cols]

\* getCursorPosition that returns 0 when sscanf has converted two integers
getCursorPosition_ReturnsZero(rows, cols, w, resp) ==
    LET wr == Ev("write", "getCursorPosition", SeqReportCursor, w)
    IN  IF w # 4
        THEN [ret |-> -1, rows |-> rows, cols |-> cols, evs |-> <<wr>>]
        ELSE
        LET rd == ReadLoop([k \in 1..BufSize |-> "?"], 0, resp, <<>>)
            buf == [rd.buf EXCEPT ![rd.i + 1] = NUL]
            evs == <<wr>> \o
                   [k \in 1..Len(rd.got) |->
                      Ev("read", "getCursorPosition", rd.got[k], Len(rd.got[k]))]
        IN  IF buf[1] # ESC \/ buf[2] # "["
            THEN [ret |-> -1, rows |-> rows, cols |-> cols, evs |-> evs]
            ELSE LET sc == Sscanf2(CStr(buf, 2), rows, cols)
                 IN  [ret |-> IF sc.n = 2 THEN 0 ELSE -1,
                      rows |-> sc.rows, cols |-> sc.cols, evs |-> evs]

\* int getCursorPosition(int *rows, int *cols). w is what the write
\* returns, resp the bytes the terminal answers with.
getCursorPosition(rows, cols, w, resp) ==
    LET wr == Ev("write", "getCursorPosition", SeqReportCursor, w)
    IN  IF w # 4
        THEN [ret |-> -1, rows |-> rows, cols |-> cols, evs |-> <<wr>>]
        ELSE
        LET rd == ReadLoop([k \in 1..BufSize |-> "?"], 0, resp, <<>>)
            buf == [rd.buf EXCEPT ![rd.i + 1] = NUL]
            evs == <<wr>> \o
                   [k \in 1..Len(rd.got) |->
                      Ev("read", "getCursorPosition", rd.got[k], Len(rd.got[k]))]
        IN  IF buf[1] # ESC \/ buf[2] # "["
            THEN [ret |-> -1, rows |-> rows, cols |-> cols, evs |-> evs]
            ELSE LET sc == Sscanf2(CStr(buf, 2), rows, cols)
                 IN  \* both the failure and the success path return -1
                     [ret |-> -1, rows |-> sc.rows, cols |-> sc.cols, evs |-> evs]

\* getWindowSize with the two members of struct winsize exchanged
getWindowSize_Swapped(rows, cols, io) ==
    LET ctl == Ev("ioctl", "getWindowSize", <<io.ws_row, io.ws_col>>, io.ioctl)
    IN  IF io.ioctl = -1 \/ io.ws_col = 0
        THEN [ret |-> -1, rows |-> rows, cols |-> cols, evs |-> <<ctl>>]
        ELSE [ret |-> 0, rows |-> io.ws_col, cols |-> io.ws_row, evs |-> <<ctl>>]

\* int getWindowSize(int *rows, int *cols). io is what the system does:
\* the ioctl's return value and struct winsize, what the two writes return
\* and the terminal's answer to the cursor-position request.
getWindowSize(rows, cols, io) ==
    LET ctl == Ev("ioctl", "getWindowSize", <<io.ws_row, io.ws_col>>, io.ioctl)
    IN  IF io.ioctl = -1 \/ io.ws_col = 0
        THEN IF io.w1 # 12
             THEN [ret |-> -1, rows |-> rows, cols |-> cols,
                   evs |-> <<ctl, Ev("write", "getWindowSize", SeqBottomRight, io.w1)>>]
             ELSE LET g == getCursorPosition(rows, cols, io.w2, io.resp)
                  IN  [g EXCEPT !.evs =
                         <<ctl, Ev("write", "getWindowSize", SeqBottomRight, 12)>>
                            \o g.evs]
        ELSE [ret |-> 0, rows |-> io.ws_row, cols |-> io.ws_col, evs |-> <<ctl>>]

\* answers of the terminal to the cursor-position request
RespGood == <<ESC, "[", "2", ";", "3", "R">>
RespGood2 == <<ESC, "[", "1", "2", ";", "1", "R">>
RespLetters == <<ESC, "[", "a", "b", "c", "R">>
RespNoEsc == <<"[", "2", ";", "3", "R">>
RespOneInt == <<ESC, "[", "2", "R">>
RespNone == <<>>
RespCut == <<ESC, "[", "2", ";", "3">>
RespLong == <<ESC, "[", "1", ";", "1">> \o [k \in 1..BufSize |-> "x"] \o <<"R">>

Responses ==
    {RespGood, RespGood2, RespLetters, RespNoEsc, RespOneInt, RespNone,
     RespCut, RespLong}

\* what the system can do during getWindowSize
ProbeEnvs ==
    \* the ioctl succeeds with a non-zero column count
    { [ioctl |-> 0, ws_row |-> r, ws_col |-> k, w1 |-> 12, w2 |-> 4, resp |-> <<>>] :
        r \in 0..MaxRows, k \in 1..MaxCols }
    \* the ioctl fails or reports no columns; the first write fails
    \cup { [ioctl |-> i, ws_row |-> 0, ws_col |-> 0, w1 |-> -1, w2 |-> 4, resp |-> <<>>] :
        i \in {0, -1} }
    \* ... the second write fails
    \cup { [ioctl |-> i, ws_row |-> 0, ws_col |-> 0, w1 |-> 12, w2 |-> -1, resp |-> <<>>] :
        i \in {0, -1} }
    \* ... both writes succeed and the terminal answers
    \cup { [ioctl |-> i, ws_row |-> 0, ws_col |-> 0, w1 |-> 12, w2 |-> 4, resp |-> a] :
        i \in {0, -1}, a \in Responses }

NoProbe == [ioctl |-> 0, ws_row |-> 0, ws_col |-> 0, w1 |-> 0, w2 |-> 0,
            resp |-> <<>>, ret |-> 1]

\* void initEditor(): getWindowSize(&E.screenrows, &E.screencols), die on -1
initEditor ==
    /\ pc = "initEditor"
    /\ \E io \in ProbeEnvs :
        LET g == getWindowSize(E.screenrows, E.screencols, io)
        IN  /\ E' = [E EXCEPT !.screenrows = g.rows, !.screencols = g.cols]
            /\ tio' = tio \o g.evs
            /\ probe' = [ioctl |-> io.ioctl, ws_row |-> io.ws_row,
                         ws_col |-> io.ws_col, w1 |-> io.w1, w2 |-> io.w2,
                         resp |-> io.resp, ret |-> g.ret]
            /\ IF g.ret = -1
               THEN pc' = "die" /\ s' = "getWindowSize"
               ELSE pc' = "editorRefreshScreen" /\ s' = s
    /\ UNCHANGED <<term, registered, exitCalls, status, ab, y, c, calls, attr0,
                   frames, allocFails, timeouts,
                   nread>>

(* ----------------------------- append buffer --------------------------- *)

\* #define ABUF_INIT {NULL, 0}; b is the bytes of the block, <<>> for NULL
ABUF_INIT == [b |-> <<>>, len |-> 0]

\* abAppend that copies s to the start of the grown block
abAppend_NoOffset(buf, str, len, ok) ==
    IF ~ok THEN buf
    ELSE LET grown == SubSeq(buf.b, 1, buf.len) \o [k \in 1..len |-> "?"]
         IN  [b |-> SubSeq(str, 1, len) \o SubSeq(grown, len + 1, buf.len + len),
              len |-> buf.len + len]

\* abAppend that gives the buffer up when realloc fails
abAppend_ResetOnFail(buf, str, len, ok) ==
    IF ~ok THEN [b |-> <<>>, len |-> 0]
    ELSE [b |-> SubSeq(buf.b, 1, buf.len) \o SubSeq(str, 1, len),
          len |-> buf.len + len]

\* void abAppend(struct abuf *ab, const char *s, int len); ok is whether
\* realloc returned a block
abAppend(buf, str, len, ok) ==
    IF ~ok THEN buf
    ELSE [b |-> SubSeq(buf.b, 1, buf.len) \o SubSeq(str, 1, len),
          len |-> buf.len + len]

\* one abAppend call of the running frame, then the statement at next
AppendStep(at, str, len, next) ==
    /\ pc = at
    /\ \E ok \in BOOLEAN :
        /\ ~ok => Faults < MaxFaults
        /\ ab' = abAppend(ab, str, len, ok)
        /\ calls' = Append(calls, [s |-> str, ok |-> ok])
        /\ allocFails' = IF ok THEN allocFails ELSE allocFails + 1
    /\ pc' = next
    /\ UNCHANGED <<term, E, registered, exitCalls, status, tio, c, s, probe,
                   attr0, frames, timeouts,
                   nread>>

(* --------------------------------- output ------------------------------ *)

\* editorRefreshScreen: struct abuf ab = ABUF_INIT
RefreshBegin ==
    /\ pc = "editorRefreshScreen"
    /\ frames < MaxFrames
    /\ frames' = frames + 1
    /\ ab' = ABUF_INIT
    /\ calls' = <<>>
    /\ pc' = "hide"
    /\ UNCHANGED <<term, E, registered, exitCalls, status, tio, y, c, s, probe,
                   attr0, allocFails, timeouts,
                   nread>>

\* abAppend(&ab, "\x1b[?25l", 6)
RefreshHide == AppendStep("hide", SeqHideCursor, 6, "home1") /\ y' = y

\* abAppend(&ab, "\x1b[H", 3); then editorDrawRows starts with y = 0
RefreshHome1 == AppendStep("home1", SeqHome, 3, "rows") /\ y' = 0

\* editorDrawRows: the loop test y < E.screenrows
DrawRowsTest ==
    /\ pc = "rows"
    /\ pc' = IF y < E.screenrows THEN "marker" ELSE "home2"
    /\ UNCHANGED <<term, E, registered, exitCalls, status, tio, ab, y, c, s,
                   probe, calls, attr0, frames, allocFails, timeouts,
                   nread>>

\* abAppend(ab, "~", 1)
DrawRowsMarker == AppendStep("marker", SeqRowMarker, 1, "clear") /\ y' = y

\* abAppend(ab, "\x1b[k", 3); then if (y < E.screenrows - 1), else y++
DrawRowsClear ==
    /\ AppendStep("clear", SeqRowClear, 3,
                  IF y < E.screenrows - 1 THEN "crlf" ELSE "rows")
    /\ y' = IF y < E.screenrows - 1 THEN y ELSE y + 1

\* abAppend(ab, "\r\n", 2); y++
DrawRowsCRLF == AppendStep("crlf", SeqCRLF, 2, "rows") /\ y' = y + 1

\* abAppend(&ab, "\x1b[H", 3)
RefreshHome2 == AppendStep("home2", SeqHome, 3, "show") /\ y' = y

\* abAppend(&ab, "\x1b[?25h", 6)
RefreshShow == AppendStep("show", SeqShowCursor, 6, "flush") /\ y' = y

\* the flush without abFree
RefreshFlush_NoFree ==
    /\ pc = "flush"
    /\ tio' = Append(tio, Ev("write", "editorRefreshScreen",
                             SubSeq(ab.b, 1, ab.len), ab.len))
    /\ pc' = "editorReadKey"
    /\ UNCHANGED <<term, E, registered, exitCalls, status, ab, y, c, s, probe,
                   calls, attr0, frames, allocFails, timeouts,
                   nread>>

\* what write(fd, buf, n) can return: n, fewer than n bytes transferred, or
\* -1
WriteResults(n) == {n} \cup (IF n > 0 THEN {n - 1} ELSE {}) \cup {-1}

\* write(STDOUT_FILENO, ab.b, ab.len); abFree(&ab)
\* The value write returns is not assigned or tested: whatever it is, the
\* function goes on to abFree and returns (it is void).
RefreshFlush ==
    /\ pc = "flush"
    /\ \E r \in WriteResults(ab.len) :
          /\ r # ab.len => Faults < MaxFaults
          /\ tio' = Append(tio, Ev("write", "editorRefreshScreen",
                                   SubSeq(ab.b, 1, ab.len), r))
    \* free(ab->b): the block is gone (b = <<>>), len is left as it was
    /\ ab' = [b |-> <<>>, len |-> ab.len]
    /\ pc' = "editorReadKey"
    /\ UNCHANGED <<term, E, registered, exitCalls, status, y, c, s, probe,
                   calls, attr0, frames, allocFails, timeouts,
                   nread>>

(* ---------------------------------- input ------------------------------ *)

\* the bytes a key read delivers in a run of the whole program: Ctrl-Q
\* (0x11) and 'a' (0x61)
Keys == {17, 97}

\* the read loop as a single read: a read without a byte returns too
ReadAttempt_NoRetry(keys, faults) ==
    /\ pc = "editorReadKey"
    /\ \/ \E k \in keys :
            /\ tio' = Append(tio, Ev("read", "editorReadKey", <<k>>, 1))
            /\ nread' = 1
            /\ c' = k
            /\ pc' = "editorProcessKeypress"
            /\ UNCHANGED <<s, timeouts>>
       \/ \E r \in {0, -1} :
            /\ Faults < faults
            /\ timeouts' = timeouts + 1
            /\ tio' = Append(tio, Ev("read", "editorReadKey",
                                     IF r = 0 THEN <<>> ELSE <<"EAGAIN">>, r))
            /\ nread' = r
            /\ pc' = "editorProcessKeypress"
            /\ UNCHANGED <<c, s>>
       \/ /\ tio' = Append(tio, Ev("read", "editorReadKey", <<"EIO">>, -1))
          /\ nread' = -1
          /\ pc' = "die"
          /\ s' = "read"
          /\ UNCHANGED <<c, timeouts>>
    /\ UNCHANGED <<term, E, registered, exitCalls, status, ab, y, probe, calls,
                   attr0, frames, allocFails>>

\* one read() of the loop of editorReadKey: a byte of keys, nothing (0), -1
\* with errno EAGAIN, or -1 with another errno. faults is the number of
\* failures the system may inject.
ReadAttempt(keys, faults) ==
    /\ pc = "editorReadKey"
    /\ \/ \E k \in keys :
            /\ tio' = Append(tio, Ev("read", "editorReadKey", <<k>>, 1))
            /\ nread' = 1
            /\ c' = k
            /\ pc' = "editorProcessKeypress"
            /\ UNCHANGED <<s, timeouts>>
       \/ \E r \in {0, -1} :
            /\ Faults < faults
            /\ timeouts' = timeouts + 1
            /\ tio' = Append(tio, Ev("read", "editorReadKey",
                                     IF r = 0 THEN <<>> ELSE <<"EAGAIN">>, r))
            /\ nread' = r
            /\ pc' = pc
            /\ UNCHANGED <<c, s>>
       \/ /\ tio' = Append(tio, Ev("read", "editorReadKey", <<"EIO">>, -1))
          /\ nread' = -1
          /\ pc' = "die"
          /\ s' = "read"
          /\ UNCHANGED <<c, timeouts>>
    /\ UNCHANGED <<term, E, registered, exitCalls, status, ab, y, probe, calls,
                   attr0, frames, allocFails>>

\* char editorReadKey(), one iteration of its loop
editorReadKey == ReadAttempt(Keys, MaxFaults)

\* the dispatch that goes back to reading a key instead of returning to the
\* loop of main
editorProcessKeypress_NoRefresh ==
    /\ pc = "editorProcessKeypress"
    /\ IF c = CTRL_KEY(113)
       THEN /\ tio' = tio \o
                    <<Ev("write", "editorProcessKeypress", SeqClearScreen, 4),
                      Ev("write", "editorProcessKeypress", SeqHome, 3)>>
            /\ status' = 0
            /\ pc' = "exit"
       ELSE /\ pc' = "editorReadKey"
            /\ UNCHANGED <<tio, status>>
    /\ UNCHANGED <<term, E, registered, exitCalls, ab, y, c, s, probe, calls,
                   attr0, frames, allocFails, timeouts,
                   nread>>

\* the dispatch that leaves on Ctrl-Q without clearing the screen
editorProcessKeypress_NoClear ==
    /\ pc = "editorProcessKeypress"
    /\ IF c = CTRL_KEY(113)
       THEN /\ status' = 0
            /\ pc' = "exit"
            /\ tio' = tio
       ELSE /\ pc' = "editorRefreshScreen"
            /\ UNCHANGED <<tio, status>>
    /\ UNCHANGED <<term, E, registered, exitCalls, ab, y, c, s, probe, calls,
                   attr0, frames, allocFails, timeouts,
                   nread>>

\* the dispatch with the key masked before the comparison
editorProcessKeypress_Masked ==
    /\ pc = "editorProcessKeypress"
    /\ IF CTRL_KEY(c) = CTRL_KEY(113)
       THEN /\ tio' = tio \o
                    <<Ev("write", "editorProcessKeypress", SeqClearScreen, 4),
                      Ev("write", "editorProcessKeypress", SeqHome, 3)>>
            /\ status' = 0
            /\ pc' = "exit"
       ELSE /\ pc' = "editorRefreshScreen"
            /\ UNCHANGED <<tio, status>>
    /\ UNCHANGED <<term, E, registered, exitCalls, ab, y, c, s, probe, calls,
                   attr0, frames, allocFails, timeouts,
                   nread>>

\* void editorProcessKeypress(), after c = editorReadKey()
editorProcessKeypress ==
    /\ pc = "editorProcessKeypress"
    /\ IF c = CTRL_KEY(113)
       THEN /\ tio' = tio \o
                    <<Ev("write", "editorProcessKeypress", SeqClearScreen, 4),
                      Ev("write", "editorProcessKeypress", SeqHome, 3)>>
            /\ status' = 0
            /\ pc' = "exit"
       ELSE /\ pc' = "editorRefreshScreen"
            /\ UNCHANGED <<tio, status>>
    /\ UNCHANGED <<term, E, registered, exitCalls, ab, y, c, s, probe, calls,
                   attr0, frames, allocFails, timeouts,
                   nread>>

(* ------------------------------ the program ---------------------------- *)

\* terminal attributes the program can be started under: a cooked-mode
\* terminal as a Linux console sets it up, and a sparser one
AttrCooked == <<Flags(<<ICRNL, IXON>>), 5, 191, 35387, 256>>
AttrSparse == <<Flags(<<BRKINT, ICRNL>>), 0, 176, Flags(<<ISIG, ICANON, ECHO>>), 256>>
Attrs == {AttrCooked, AttrSparse}

Init ==
    /\ pc = "enableRawMode"
    /\ term \in Attrs
    /\ attr0 = term
    /\ E = EInit
    /\ registered = FALSE
    /\ exitCalls = 0
    /\ status = -1
    /\ tio = <<>>
    /\ ab = ABUF_INIT
    /\ y = 0
    /\ c = 0
    /\ s = ""
    /\ probe = NoProbe
    /\ calls = <<>>
    /\ frames = 0
    /\ allocFails = 0
    /\ timeouts = 0
    /\ nread = 0

Next ==
    \/ enableRawMode
    \/ initEditor
    \/ RefreshBegin
    \/ RefreshHide
    \/ RefreshHome1
    \/ DrawRowsTest
    \/ DrawRowsMarker
    \/ DrawRowsClear
    \/ DrawRowsCRLF
    \/ RefreshHome2
    \/ RefreshShow
    \/ RefreshFlush
    \/ editorReadKey
    \/ editorProcessKeypress
    \/ die
    \/ exit
    \/ disableRawMode

Spec == Init /\ [][Next]_vars

(* ----------------- enable() followed at once by disable() -------------- *)

\* attribute sets for the round trip: every combination of a few values of
\* each member
AttrSpace ==
    { <<i, o, cf, l, cc>> :
        i \in {0, Flags(<<ICRNL, IXON>>), Flags(<<BRKINT, ICRNL>>)},
        o \in {0, 5},
        cf \in {176, 191},
        l \in {Flags(<<ISIG, ICANON, ECHO>>), 35387},
        cc \in {256, 1} }

InitRoundTrip ==
    /\ pc = "enableRawMode"
    /\ term \in AttrSpace
    /\ attr0 = term
    /\ E = EInit
    /\ registered = FALSE
    /\ exitCalls = 0
    /\ status = -1
    /\ tio = <<>>
    /\ ab = ABUF_INIT
    /\ y = 0
    /\ c = 0
    /\ s = ""
    /\ probe = NoProbe
    /\ calls = <<>>
    /\ frames = 0
    /\ allocFails = 0
    /\ timeouts = 0
    /\ nread = 0

\* the caller goes from the return of enableRawMode straight to
\* disableRawMode
CallDisable ==
    /\ pc = "initEditor"
    /\ pc' = "disableRawMode"
    /\ UNCHANGED <<term, E, registered, exitCalls, status, tio, ab, y, c, s,
                   probe, calls, attr0, frames, allocFails, timeouts,
                   nread>>

NextRoundTrip ==
    \/ enableRawMode
    \/ CallDisable
    \/ disableRawMode

SpecRoundTrip == InitRoundTrip /\ [][NextRoundTrip]_vars

(* ---------------------- the program without any input ------------------ *)

\* the read loop left after a read without a byte
ReadNoInput_Returns ==
    /\ pc = "editorReadKey"
    /\ \E r \in {0, -1} : nread' = r
    /\ pc' = "editorProcessKeypress"
    /\ UNCHANGED <<term, E, registered, exitCalls, status, tio, ab, y, c, s,
                   probe, calls, attr0, frames, allocFails, timeouts>>

\* one iteration of the loop of editorReadKey when no byte is available:
\* with VMIN = 0 and VTIME = 1 the read returns 0 after a tenth of a second
\* (or -1 with EAGAIN), nread != 1 holds and the loop goes round. The read
\* is not added to tio and not counted, so that the loop can go on without
\* bound.
ReadNoInput ==
    /\ pc = "editorReadKey"
    /\ \E r \in {0, -1} : nread' = r
    /\ pc' = "editorReadKey"
    /\ UNCHANGED <<term, E, registered, exitCalls, status, tio, ab, y, c, s,
                   probe, calls, attr0, frames, allocFails, timeouts>>

\* the program on a terminal nobody types at
NextNoInput ==
    \/ enableRawMode
    \/ initEditor
    \/ RefreshBegin
    \/ RefreshHide
    \/ RefreshHome1
    \/ DrawRowsTest
    \/ DrawRowsMarker
    \/ DrawRowsClear
    \/ DrawRowsCRLF
    \/ RefreshHome2
    \/ RefreshShow
    \/ RefreshFlush
    \/ ReadNoInput
    \/ die
    \/ exit
    \/ disableRawMode

\* The process is scheduled again and again and every system call it makes
\* returns (a read after at most the timeout): a step is taken whenever one
\* is possible.
SpecNoInput == Init /\ [][NextNoInput]_vars /\ WF_vars(NextNoInput)

(* ------------------------- one keypress, any key ----------------------- *)

\* reads without a byte before the key arrives
MaxReads == 4

\* keys: Ctrl-Q, and bytes that are not Ctrl-Q: '1' (0x31, whose low five
\* bits are those of Ctrl-Q), 'a', 'q'
AllKeys == {17, 49, 97, 113}

\* the frame of a screen of one row
OneRowFrame ==
    <<SeqHideCursor, SeqHome, SeqRowMarker, SeqRowClear, SeqHome, SeqShowCursor>>

\* main has called editorProcessKeypress for the first time, on a screen of
\* one row and one column; tio starts here
InitKeys ==
    /\ pc = "editorReadKey"
    /\ attr0 \in Attrs
    /\ term = RawOf(attr0)
    /\ E = [StoreTermiosAtE(EInit, attr0) EXCEPT !.screenrows = 1, !.screencols = 1]
    /\ registered = TRUE
    /\ exitCalls = 0
    /\ status = -1
    /\ tio = <<>>
    /\ ab = [b |-> <<>>, len |-> SumLen(OneRowFrame)]
    /\ y = 1
    /\ c = 0
    /\ s = ""
    /\ probe = [ioctl |-> 0, ws_row |-> 1, ws_col |-> 1, w1 |-> 12, w2 |-> 4,
                resp |-> <<>>, ret |-> 0]
    /\ calls = [k \in 1..Len(OneRowFrame) |-> [s |-> OneRowFrame[k], ok |-> TRUE]]
    /\ frames = 1
    /\ allocFails = 0
    /\ timeouts = 0
    /\ nread = 0

\* editorReadKey, one iteration of its loop, with any of the keys
ReadAnyKey == ReadAttempt(AllKeys, MaxReads)

NextKeys ==
    \/ ReadAnyKey
    \/ editorProcessKeypress

SpecKeys == InitKeys /\ [][NextKeys]_vars

(* ------------------- append() on arbitrary byte strings ---------------- *)

\* appends made to one buffer
MaxAppends == 3

ByteStrings == {<<>>, <<"a">>, <<"b", "c">>, <<ESC, "[", "H">>}

InitAppend ==
    /\ pc = "abAppend"
    /\ term = AttrCooked
    /\ attr0 = term
    /\ E = EInit
    /\ registered = FALSE
    /\ exitCalls = 0
    /\ status = -1
    /\ tio = <<>>
    /\ ab = ABUF_INIT
    /\ y = 0
    /\ c = 0
    /\ s = ""
    /\ probe = NoProbe
    /\ calls = <<>>
    /\ frames = 0
    /\ allocFails = 0
    /\ timeouts = 0
    /\ nread = 0

\* abAppend(&ab, str, strlen(str)) on the same buffer, again and again
AnyAppend ==
    /\ Len(calls) < MaxAppends
    /\ \E str \in ByteStrings : AppendStep("abAppend", str, Len(str), "abAppend")
    /\ y' = y

SpecAppend == InitAppend /\ [][AnyAppend]_vars

(* ============================== the claims ============================= *)

EvIdx == 1..Len(tio)

\* a read from or a write to the terminal: escape-sequence output, the
\* geometry probe, a key read, the diagnostic
IsIO(e) == e.op \in {"write", "read", "ioctl", "perror"}

\* the calls of tcsetattr made by disableRawMode
DisableRuns == {i \in EvIdx : tio[i].op = "tcsetattr" /\ tio[i].fn = "disableRawMode"}

\* raw mode has been applied by enableRawMode before event i
RawAppliedBefore(i) ==
    \E j \in 1..(i - 1) :
        tio[j].op = "tcsetattr" /\ tio[j].fn = "enableRawMode" /\ tio[j].ret = 0

\* C1: once enable() has captured the original attributes, the saved value
\* is never modified: what disable() reads from the session, and what every
\* run of disable() applies, is the attribute set in effect when enable()
\* was called.
C1_SavedAttributesImmutable ==
    (\A i \in EvIdx : tio[i].op \in {"tcgetattr", "tcsetattr"} => tio[i].ret = 0)
    => /\ registered => LoadTermiosAtE(E) = attr0
       /\ \A i \in DisableRuns : tio[i].data = attr0

\* C2: for every attribute set A in effect when enable() is called,
\* disable() called right after enable() leaves the terminal attributes
\* equal to A.
C2_RoundTrip ==
    (pc = "exited" /\ DisableRuns # {}) => term = attr0

\* C2 witness: enable() applied a raw mode that differs from A, and
\* disable() has put A back.
C2_Witness ==
    /\ pc = "exited"
    /\ term = attr0
    /\ \E i \in EvIdx :
        /\ tio[i].op = "tcsetattr" /\ tio[i].fn = "enableRawMode"
        /\ tio[i].ret = 0 /\ tio[i].data # attr0

\* C3 as stated: on every path that ends the process, disable() runs
\* exactly once and no other terminal I/O happens after it.
C3_DisableOnceOnEveryExit ==
    pc = "exited" =>
        /\ Cardinality(DisableRuns) = 1
        /\ \A i \in DisableRuns : \A j \in EvIdx : j > i => ~IsIO(tio[j])

\* C3 amended: on every path that ends the process after enable() has
\* captured the attributes, disable() runs exactly once; when enable()'s
\* attribute read itself fails the process ends without running disable();
\* the only terminal I/O after disable() is the output of the fatal-error
\* path taken when disable()'s own attribute apply fails.
C3_DisableOnceAfterCapture ==
    pc = "exited" =>
        /\ registered => Cardinality(DisableRuns) = 1
        /\ ~registered =>
              /\ DisableRuns = {}
              /\ tio[1] = Ev("tcgetattr", "enableRawMode", <<>>, -1)
        /\ \A i \in DisableRuns : \A j \in EvIdx :
              j > i => (tio[i].ret = -1 /\ tio[j].fn = "die")

\* C3 witness: the quit key ended the process after a frame was drawn, and
\* the one run of disable() is the last terminal call.
C3_Witness ==
    /\ pc = "exited"
    /\ status = 0
    /\ Cardinality(DisableRuns) = 1
    /\ tio[Len(tio)].fn = "disableRawMode" /\ tio[Len(tio)].ret = 0
    /\ \E i \in EvIdx : tio[i].fn = "editorRefreshScreen"

\* C4 as stated: no read from or write to the terminal occurs before
\* enable() has run and applied raw mode.
C4_NoIOBeforeRawMode ==
    \A i \in EvIdx : IsIO(tio[i]) => RawAppliedBefore(i)

\* C4 amended: the first terminal call of every execution is enable()'s
\* attribute read, and before enable() has applied raw mode the only
\* terminal I/O is the output of the fatal-error path taken when enable()'s
\* attribute read or attribute apply failed: no geometry probe, frame write
\* or key read happens before raw mode is applied.
C4_NoIOBeforeEnable ==
    \A i \in EvIdx :
        IsIO(tio[i]) =>
            /\ tio[1].op = "tcgetattr" /\ tio[1].fn = "enableRawMode"
            /\ \/ RawAppliedBefore(i)
               \/ /\ tio[i].fn = "die"
                  /\ \/ tio[1].ret = -1
                     \/ \E j \in 1..(i - 1) :
                           /\ tio[j].op = "tcsetattr"
                           /\ tio[j].fn = "enableRawMode"
                           /\ tio[j].ret = -1

\* C4 witness: a key has been read, after raw mode was applied.
C4_Witness ==
    \E i \in EvIdx :
        /\ tio[i].op = "read" /\ tio[i].fn = "editorReadKey" /\ tio[i].ret = 1
        /\ RawAppliedBefore(i)

\* the statements of editorRefreshScreen after its first
InFrame ==
    pc \in {"hide", "home1", "rows", "marker", "clear", "crlf", "home2",
            "show", "flush"}

\* the frame writes
FlushIdx == {i \in EvIdx : tio[i].fn = "editorRefreshScreen"}

LastFlush == tio[CHOOSE i \in FlushIdx : \A j \in FlushIdx : j <= i]

\* the strings of the calls of abAppend that succeeded, in call order
RECURSIVE OkStrs(_)
OkStrs(cs) ==
    IF cs = <<>> THEN <<>>
    ELSE (IF Head(cs).ok THEN <<Head(cs).s>> ELSE <<>>) \o OkStrs(Tail(cs))

\* the VT100 control sequences the frame is described with
VtHideCursor == <<ESC, "[", "?", "2", "5", "l">>
VtShowCursor == <<ESC, "[", "?", "2", "5", "h">>
VtHome == <<ESC, "[", "H">>
VtClearToEndOfLine == <<ESC, "[", "K">>

\* rows k..n-1 of a frame, each the marker and clr, with CR LF after every
\* row but the last
RECURSIVE FrameRows(_, _, _)
FrameRows(k, n, clr) ==
    IF k >= n THEN <<>>
    ELSE <<"~">> \o clr \o (IF k < n - 1 THEN <<"CR", "LF">> ELSE <<>>)
            \o FrameRows(k + 1, n, clr)

FrameOf(n, clr) ==
    VtHideCursor \o VtHome \o FrameRows(0, n, clr) \o VtHome \o VtShowCursor

\* C5: for every geometry with rows = n >= 1 the bytes flushed by one
\* refresh are hide-cursor, home-cursor, then for each row the marker and
\* clear-to-end-of-line, with CR LF after every row but the last, then
\* home-cursor and show-cursor (every append having succeeded).
C5_FrameBytes ==
    (allocFails = 0 /\ E.screenrows >= 1) =>
        \A i \in FlushIdx : tio[i].data = FrameOf(E.screenrows, VtClearToEndOfLine)

\* The frame has the order C5 describes, with the bytes ESC [ k of the
\* program where clear-to-end-of-line (ESC [ K) is expected.
FrameBytesAsWritten ==
    (allocFails = 0 /\ probe.ret = 0) =>
        \A i \in FlushIdx : tio[i].data = FrameOf(E.screenrows, SeqRowClear)

\* C6: every refresh issues exactly one write, whose argument is the whole
\* buffer; the buffer is released afterwards, and each frame starts from an
\* empty buffer, so a frame's write holds the appends of that frame only.
C6_OneWritePerFrame ==
    /\ Cardinality(FlushIdx) = IF InFrame THEN frames - 1 ELSE frames
    /\ pc = "hide" => ab = ABUF_INIT
    /\ (~InFrame /\ frames > 0) =>
          /\ LastFlush.op = "write"
          /\ LastFlush.data = Concat(OkStrs(calls))
          /\ ab.b = <<>>

\* C6 witness: the second frame has been written.
C6_Witness ==
    /\ pc = "editorReadKey"
    /\ frames = 2
    /\ Cardinality(FlushIdx) = 2
    /\ LastFlush.data # <<>>

\* C7: after every append() on a buffer that started empty, the contents are
\* the concatenation, in call order, of the strings of the calls that
\* succeeded, the length is the sum of their lengths, and the buffer has not
\* shrunk.
C7_AppendConcatenates ==
    [][calls' # calls =>
        /\ ab'.b = Concat(OkStrs(calls'))
        /\ ab'.len = SumLen(OkStrs(calls'))
        /\ Len(ab'.b) = ab'.len
        /\ ab'.len >= ab.len]_vars

\* C7 witness: three appends succeeded, the last two on a non-empty buffer.
C7_Witness ==
    /\ Len(calls) = 3
    /\ \A k \in 1..3 : calls[k].ok /\ calls[k].s # <<>>
    /\ calls[1].s # calls[2].s
    /\ ab.b = calls[1].s \o calls[2].s \o calls[3].s

\* appends of one frame on a screen of n rows
AppendsPerFrame(n) == 4 + (IF n >= 1 THEN 3 * n - 1 ELSE 0)

\* C8: when realloc fails in an append(), the buffer is left as it was and
\* the process goes on with the frame; the rest of the frame is appended
\* and the frame is flushed, holding the appends that succeeded, in order.
C8_FailedAppendDropped ==
    [][/\ allocFails' # allocFails => (ab' = ab /\ InFrame')
       /\ (pc = "flush" /\ pc' # "flush") =>
             /\ Len(calls) = AppendsPerFrame(E.screenrows)
             /\ SubSeq(tio', 1, Len(tio)) = tio
             /\ Len(tio') = Len(tio) + 1
             /\ tio'[Len(tio')].op = "write"
             /\ tio'[Len(tio')].fn = "editorRefreshScreen"
             /\ tio'[Len(tio')].data = Concat(OkStrs(calls))
             /\ Len(tio'[Len(tio')].data) = SumLen(OkStrs(calls))]_vars

\* C8 witness: a frame in which an append failed has been flushed, without
\* the bytes of that append.
C8_Witness ==
    /\ pc = "editorReadKey"
    /\ \E k \in 1..Len(calls) : ~calls[k].ok
    /\ LastFlush.data = Concat(OkStrs(calls))
    /\ Len(LastFlush.data) >= 12

\* getWindowSize has run
Probed == probe.ret # 1

\* the ioctl succeeded and reported a non-zero column count
DirectQueryOk == probe.ioctl = 0 /\ probe.ws_col # 0

\* C9: when the window-size ioctl succeeds with a non-zero column count,
\* the probe succeeds with exactly the reported rows and columns, writes no
\* escape sequence and reads no input.
C9_DirectQuery ==
    (Probed /\ DirectQueryOk) =>
        /\ probe.ret = 0
        /\ E.screenrows = probe.ws_row
        /\ E.screencols = probe.ws_col
        /\ \A i \in EvIdx :
              tio[i].fn \in {"getWindowSize", "getCursorPosition"}
                  => tio[i].op = "ioctl"

\* C9 witness: the ioctl reported 2 rows and 1 column and the program is
\* about to draw its first frame.
C9_Witness ==
    /\ Probed /\ DirectQueryOk
    /\ pc = "editorRefreshScreen"
    /\ E.screenrows = 2 /\ E.screencols = 1
    /\ probe.ws_row = 2 /\ probe.ws_col = 1

\* C10: when the direct query fails or reports zero columns and the
\* terminal answers the cursor-position request with ESC [ r ; c R, the
\* probe succeeds with Geometry{r, c} and the program goes on to render.
C10_FallbackSucceeds ==
    (Probed /\ ~DirectQueryOk /\ probe.w1 = 12 /\ probe.w2 = 4) =>
        /\ probe.resp = RespGood =>
              /\ probe.ret = 0 /\ pc # "die"
              /\ E.screenrows = 2 /\ E.screencols = 3
        /\ probe.resp = RespGood2 =>
              /\ probe.ret = 0 /\ pc # "die"
              /\ E.screenrows = 12 /\ E.screencols = 1

\* the program is on its way out: die, exit and the atexit handler
Terminating == pc \in {"die", "exit", "disableRawMode", "exited", "hung"}

\* the ioctl did not give the size, and both escape sequences of the
\* fallback were written in full: the terminal's answer is read
FallbackAsked == Probed /\ ~DirectQueryOk /\ probe.w1 = 12 /\ probe.w2 = 4

\* answers that are not a cursor-position report: wrong first two bytes, no
\* two integers, more than 31 bytes before the R
Malformed == {RespLetters, RespNoEsc, RespOneInt, RespNone, RespLong}

\* C11: on the fallback path a malformed cursor-position report makes
\* getWindowSize return -1; this one failure puts the program on the fatal
\* path with exit status 1, the size is asked for once only (one ioctl, one
\* cursor-position request) and no frame is ever written.
C11_MalformedResponseFatal ==
    (FallbackAsked /\ probe.resp \in Malformed) =>
        /\ probe.ret = -1
        /\ Terminating
        /\ pc # "die" => status = 1
        /\ Cardinality({i \in EvIdx : tio[i].op = "ioctl"}) = 1
        /\ Cardinality({i \in EvIdx : /\ tio[i].fn = "getCursorPosition"
                                      /\ tio[i].op = "write"}) = 1
        /\ FlushIdx = {}
        /\ frames = 0

\* C11 witness: the terminal answered with 36 bytes before the R, and the
\* process has ended with status 1 without a frame.
C11_Witness ==
    /\ FallbackAsked
    /\ probe.resp = RespLong
    /\ pc = "exited"
    /\ status = 1
    /\ FlushIdx = {}

\* main is in its while loop: a refresh or a keypress is under way or next
InLoop ==
    InFrame \/ pc \in {"editorRefreshScreen", "editorReadKey", "editorProcessKeypress"}

\* C12: whenever the program is in the render/input loop the stored screen
\* size has at least one row and at least one column; a startup that does
\* not find both as positive integers ends on the fatal path and never
\* enters the loop.
C12_GeometryPositiveInLoop ==
    InLoop => (E.screenrows >= 1 /\ E.screencols >= 1)

\* a read of editorReadKey that came back without a byte
IsTimeout(e) ==
    /\ e.op = "read"
    /\ e.fn = "editorReadKey"
    /\ \/ e.ret = 0 /\ e.data = <<>>
       \/ e.ret = -1 /\ e.data = <<"EAGAIN">>

\* C13: when k reads come back without a byte (0 bytes, or -1 with EAGAIN)
\* and the next read delivers byte b, editorReadKey returns b after exactly
\* k + 1 reads; it has written nothing and the process has not ended.
C13_ReadKeyRetries ==
    /\ pc = "editorReadKey" =>
          /\ Len(tio) = timeouts
          /\ \A i \in EvIdx : IsTimeout(tio[i])
          /\ status = -1
    /\ pc = "editorProcessKeypress" =>
          /\ Len(tio) = timeouts + 1
          /\ \A i \in 1..timeouts : IsTimeout(tio[i])
          /\ tio[Len(tio)] = Ev("read", "editorReadKey", <<c>>, 1)
          /\ nread = 1
          /\ status = -1

\* C13 witness: two reads without a byte, one of each kind, then 'a'; the
\* key is returned after the third read.
C13_Witness ==
    /\ pc = "editorProcessKeypress"
    /\ timeouts = 2
    /\ Len(tio) = 3
    /\ tio[1].ret # tio[2].ret
    /\ c = 97

\* event e is write(STDOUT_FILENO, seq, Len(seq)) made by function fn
IsWrite(e, fn, seq) ==
    e.op = "write" /\ e.fn = fn /\ e.data = seq /\ e.ret = Len(seq)

\* the reads of editorReadKey that delivered Ctrl-Q (0x11)
QuitIdx ==
    {i \in EvIdx : /\ tio[i].fn = "editorReadKey"
                   /\ tio[i].ret = 1
                   /\ tio[i].data = <<17>>}

\* what follows a read of Ctrl-Q once the key has been dispatched: the two
\* writes, made by editorProcessKeypress itself, then the way out; the
\* restoration has run once when the process has ended
QuitSequence(i) ==
    /\ Len(tio) >= i + 2
    /\ IsWrite(tio[i + 1], "editorProcessKeypress", SeqClearScreen)
    /\ IsWrite(tio[i + 2], "editorProcessKeypress", SeqHome)
    /\ \A j \in FlushIdx : j < i
    /\ Len(calls) = AppendsPerFrame(E.screenrows)
    /\ Terminating
    /\ pc = "exited" =>
          /\ Cardinality(DisableRuns) = 1
          /\ \A j \in DisableRuns : j > i + 2

\* C14 as stated: when editorProcessKeypress reads 0x11 it writes
\* clear-screen, then home-cursor, with write calls of its own (not through
\* the append buffer), the restoration runs before the process ends, and the
\* process ends with exit status 0.
C14_QuitExitsZero ==
    \A i \in QuitIdx : pc # "editorProcessKeypress" =>
        /\ QuitSequence(i)
        /\ pc = "exited" => status = 0

\* C14 amended: as above, and the exit status is 0 when the tcsetattr of the
\* restoration succeeds; when it fails, the fatal-error path runs and the
\* exit status is 1.
C14_QuitExitsZeroIfRestored ==
    \A i \in QuitIdx : pc # "editorProcessKeypress" =>
        /\ QuitSequence(i)
        /\ pc = "exited" =>
              \A j \in DisableRuns :
                  /\ tio[j].ret = 0 => status = 0
                  /\ tio[j].ret = -1 => status = 1

\* C14 witness: Ctrl-Q was read after a frame, the two writes followed, the
\* restoration succeeded and the process has ended with status 0.
C14_Witness ==
    /\ pc = "exited"
    /\ status = 0
    /\ \E i \in QuitIdx :
          /\ IsWrite(tio[i + 1], "editorProcessKeypress", SeqClearScreen)
          /\ IsWrite(tio[i + 2], "editorProcessKeypress", SeqHome)
          /\ tio[i + 3] = Ev("tcsetattr", "disableRawMode", tio[i + 3].data, 0)
          /\ Len(tio) = i + 3

\* C15: for every byte other than 0x11, editorProcessKeypress returns to the
\* loop of main and has changed nothing: no terminal call is made, and the
\* screen size, the saved attributes, the terminal's attributes, the exit
\* handler and the append buffer are as they were.
C15_OtherKeysNoEffect ==
    [][(pc = "editorProcessKeypress" /\ c # 17) =>
          /\ pc' = "editorRefreshScreen"
          /\ UNCHANGED <<tio, E, term, registered, exitCalls, status, ab,
                         calls, c, s>>]_vars

\* C15 witness: '1' (0x31, which CTRL_KEY would map to 0x11) was read and
\* dispatched; the read is the only terminal call and the program is back in
\* the loop of main.
C15_Witness ==
    /\ pc = "editorRefreshScreen"
    /\ c = 49
    /\ tio = <<Ev("read", "editorReadKey", <<49>>, 1)>>
    /\ status = -1
    /\ term = RawOf(attr0)

\* the calls of perror
PerrorIdx == {i \in EvIdx : tio[i].op = "perror"}

\* the last call made by getWindowSize or getCursorPosition
LastProbeIdx ==
    CHOOSE i \in EvIdx :
        /\ tio[i].fn \in {"getWindowSize", "getCursorPosition"}
        /\ \A j \in EvIdx :
              tio[j].fn \in {"getWindowSize", "getCursorPosition"} => j <= i

\* the failing operation a diagnostic names when the call logged at i is a
\* fatal error, "" when it is not one: tcgetattr or tcsetattr has failed,
\* getWindowSize has failed (i is its last call), the read of editorReadKey
\* has failed with an errno other than EAGAIN
FatalName(i) ==
    IF tio[i].op = "tcgetattr" /\ tio[i].ret = -1 THEN "tcgetattr"
    ELSE IF tio[i].op = "tcsetattr" /\ tio[i].ret = -1 THEN "tcsetattr"
    ELSE IF probe.ret = -1 /\ i = LastProbeIdx THEN "getWindowSize"
    ELSE IF tio[i].fn = "editorReadKey" /\ tio[i].ret = -1
            /\ tio[i].data # <<"EAGAIN">> THEN "read"
    ELSE ""

\* C16: every fatal error (the attribute read or an attribute apply fails,
\* the screen size is not found, a key read fails with an error other than
\* a timeout) is followed by clear-screen, home-cursor and then the
\* diagnostic, and by exit status 1; every diagnostic follows such a
\* failure; exit status 0 occurs only after the quit key, without any fatal
\* error.
C16_FatalErrorsExitOne ==
    /\ \A i \in EvIdx : FatalName(i) # "" =>
          \/ i = Len(tio) /\ pc = "die"
          \/ /\ Len(tio) >= i + 3
             /\ IsWrite(tio[i + 1], "die", SeqClearScreen)
             /\ IsWrite(tio[i + 2], "die", SeqHome)
             /\ tio[i + 3] = Ev("perror", "die", <<FatalName(i)>>, 0)
             /\ status = 1
             /\ Terminating
    /\ \A i \in PerrorIdx : i > 3 /\ FatalName(i - 3) # ""
    /\ status = 0 => QuitIdx # {}
    /\ pc = "exited" =>
          /\ status \in {0, 1}
          /\ status = 0 =>
                /\ PerrorIdx = {}
                /\ \A i \in EvIdx : FatalName(i) = ""

\* the attribute set C17 describes, derived from the captured set a: each
\* flag is changed in the field it belongs to
RawAsDescribed(a) ==
    <<BitClear(a[C_IFLAG], Flags(<<BRKINT, ICRNL, INPCK, ISTRIP, IXON>>)),
      BitClear(a[C_OFLAG], OPOST),
      BitOr(a[C_CFLAG], CS8),
      BitClear(a[C_LFLAG], Flags(<<ECHO, ICANON, IEXTEN, ISIG>>)),
      1>>

\* C17: the attribute set enableRawMode applies is the captured one with
\* BRKINT, ICRNL, INPCK, ISTRIP, IXON cleared in the input flags, OPOST
\* cleared in the output flags, CS8 set in the control flags, ECHO, ICANON,
\* IEXTEN, ISIG cleared in the local flags, VMIN = 0 and VTIME = 1; nothing
\* else is changed.
C17_RawAttributes ==
    \A i \in EvIdx :
        (/\ tio[i].op = "tcsetattr"
         /\ tio[i].fn = "enableRawMode"
         /\ \A j \in 1..i : tio[j].ret = 0)
        => tio[i].data = RawAsDescribed(attr0)

\* the state of the program's state machine: main is before enableRawMode,
\* before initEditor, before its loop, in editorRefreshScreen (or about to
\* call it again), in editorProcessKeypress, or on the way out
Phase ==
    IF pc = "enableRawMode" THEN "Uninitialized"
    ELSE IF pc = "initEditor" THEN "RawModeEnabled"
    ELSE IF pc = "editorRefreshScreen" /\ frames = 0 THEN "GeometryKnown"
    ELSE IF pc = "editorRefreshScreen" \/ InFrame THEN "Rendering"
    ELSE IF pc \in {"editorReadKey", "editorProcessKeypress"} THEN "AwaitingInput"
    ELSE "Terminating"

PhaseOrder ==
    { <<"Uninitialized", "RawModeEnabled">>,
      <<"RawModeEnabled", "GeometryKnown">>,
      <<"GeometryKnown", "Rendering">>,
      <<"Rendering", "AwaitingInput">>,
      <<"AwaitingInput", "Rendering">> }

\* the reads of editorReadKey that delivered a key
KeyIdx == {i \in EvIdx : tio[i].fn = "editorReadKey" /\ tio[i].ret = 1}

\* C18: the program goes through Uninitialized, RawModeEnabled,
\* GeometryKnown and then alternates between Rendering and AwaitingInput,
\* Rendering first; Terminating is entered only by the quit key or by a
\* call of die, and is never left. Frames and keys alternate: before each
\* key there is one more frame than keys, before each frame as many frames
\* as keys.
C18_StateOrder ==
    /\ [][Phase' # Phase =>
            \/ <<Phase, Phase'>> \in PhaseOrder
            \/ /\ Phase # "Terminating"
               /\ Phase' = "Terminating"
               /\ \/ pc' = "die"
                  \/ pc = "editorProcessKeypress" /\ c = 17]_vars
    /\ [](/\ \A i \in KeyIdx :
                Cardinality({j \in FlushIdx : j < i})
                    = Cardinality({j \in KeyIdx : j < i}) + 1
          /\ \A i \in FlushIdx :
                Cardinality({j \in FlushIdx : j < i})
                    = Cardinality({j \in KeyIdx : j < i}))

\* C18 witness: a frame, a key that is not the quit key, a second frame,
\* the quit key, and the process has ended.
C18_Witness ==
    /\ pc = "exited"
    /\ status = 0
    /\ Cardinality(FlushIdx) = 2
    /\ Cardinality(KeyIdx) = 2
    /\ Cardinality(QuitIdx) = 1

\* C19 as stated: when no input byte ever becomes available the program
\* does not remain in the key-read step forever: again and again it is
\* somewhere else.
C19_LeavesKeyRead == []<>(pc # "editorReadKey")

\* C19 amended: when no input byte becomes available, every read returns
\* and the loop of editorReadKey goes round: from the key-read step the
\* program goes nowhere else.
C19_KeyReadRetriesWithoutEnd ==
    [][pc = "editorReadKey" => pc' = "editorReadKey"]_vars

\* C19 witness: a frame has been written and a read of editorReadKey has
\* come back with -1 and EAGAIN; the program is in the read loop.
C19_Witness ==
    /\ pc = "editorReadKey"
    /\ nread = -1
    /\ FlushIdx # {}
    /\ status = -1

\* the frame writes that were not complete: fewer bytes transferred than
\* the buffer held, or -1
ShortFlushIdx == {i \in FlushIdx : tio[i].ret # Len(tio[i].data)}

\* C20: a frame write that transfers fewer bytes than the buffer holds, or
\* fails, is not repeated, and editorRefreshScreen reports it to its
\* caller: the program does not go on to read a key as it does after a
\* complete write.
C20_ShortWriteReported ==
    \A i \in ShortFlushIdx :
        /\ i < Len(tio) => tio[i + 1].fn # "editorRefreshScreen"
        /\ i = Len(tio) => pc # "editorReadKey"

====
